---- MODULE Spec2Model ----
(***************************************************************************)
(* Model of the RS-Conservation-GEE Code Editor scripts.                   *)
(*                                                                         *)
(* Every script is a straight-line program: user settings, an AOI-loading  *)
(* block, map styling, prints/charts, export requests and a closing        *)
(* message.  A run is modelled as a program counter walking the script's   *)
(* statement list; a thrown error halts the run.  Strings are sequences of *)
(* pieces (a piece is a run of word characters, one whitespace character   *)
(* or one punctuation character), so '+' is sequence concatenation.        *)
(*                                                                         *)
(* The per-pixel rainfall arithmetic of the CHIRPS script is modelled      *)
(* separately (SpecRain) over a small calendar.                            *)
(***************************************************************************)
EXTENDS Integers, Sequences, FiniteSets, TLC

VARIABLES
  script,          \* which script is run
  country_name,    \* user setting
  use_custom_aoi,  \* user setting
  aoi_name,        \* user setting (GSW1_4 only)
  admin_level,     \* user setting (CHIRPS only)
  admin1_names,    \* user setting (CHIRPS only)
  admin2_names,    \* user setting (CHIRPS only)
  imported,        \* what the Imports panel binds to the name AOI
  AOI,             \* script variable AOI
  AOI_geometry,    \* script variable AOI_geometry / AOIgeom
  aoi_label,       \* script variable aoi_label
  output_prefix,   \* script variable output_prefix
  selectors,       \* script variable selectors (CHIRPS only)
  pc,              \* index of the next statement, 1-based
  error,           \* message of the thrown error, or NoError
  printed,         \* console output, in order
  mapLayers,       \* names of the layers added to the map, in order
  exports,         \* export requests queued, in order
  rain,            \* per-pixel CHIRPS computation (SpecRain only)
  forest,          \* GFC forest statistics (SpecForest only)
  stats,           \* GSW1_4 transition table row (SpecFeature only)
  ndvi             \* per-pixel NDVI computation (SpecNDVI only)

vars == <<script, country_name, use_custom_aoi, aoi_name, admin_level,
          admin1_names, admin2_names, imported, AOI, AOI_geometry, aoi_label,
          output_prefix, selectors, pc, error, printed, mapLayers, exports,
          rain, forest, stats, ndvi>>

settings == <<script, country_name, use_custom_aoi, aoi_name, admin_level,
              admin1_names, admin2_names, imported>>

-----------------------------------------------------------------------------
(* Strings                                                                 *)

WhiteSpace == {" "}
Punctuation == {"'", "!"}

Unset == <<"<undefined>">>
NoError == <<>>

\* s begins with p
StartsWith(s, p) ==
  /\ Len(p) <= Len(s)
  /\ SubSeq(s, 1, Len(p)) = p

RECURSIVE TrimLeft(_)
TrimLeft(s) ==
  IF s = <<>> THEN <<>>
  ELSE IF Head(s) \in WhiteSpace THEN TrimLeft(Tail(s)) ELSE s

RECURSIVE TrimRight(_)
TrimRight(s) ==
  IF s = <<>> THEN <<>>
  ELSE IF s[Len(s)] \in WhiteSpace THEN TrimRight(SubSeq(s, 1, Len(s) - 1)) ELSE s

\* .replace(/\s+/g, '_'): every maximal run of whitespace becomes one '_'
RECURSIVE ReplaceSpaceRuns(_)
ReplaceSpaceRuns(s) ==
  IF s = <<>> THEN <<>>
  ELSE IF Head(s) \in WhiteSpace
       THEN <<"_">> \o ReplaceSpaceRuns(TrimLeft(s))
       ELSE <<Head(s)>> \o ReplaceSpaceRuns(Tail(s))

\* .replace(/[^\w\-]/g, ''): drop everything but word characters and '-'
RECURSIVE StripNonWord(_)
StripNonWord(s) ==
  IF s = <<>> THEN <<>>
  ELSE IF Head(s) \in (WhiteSpace \cup Punctuation)
       THEN StripNonWord(Tail(s))
       ELSE <<Head(s)>> \o StripNonWord(Tail(s))

slugifyName(s) == StripNonWord(ReplaceSpaceRuns(TrimRight(TrimLeft(s))))

-----------------------------------------------------------------------------
(* Settings the model ranges over                                          *)

Scripts == {"GSW", "WDPA", "GFC", "NDVI", "CHIRPS", "GSW1_4", "DEM"}

Countries == { <<"Portugal">>, <<"South", " ", "Africa">> }

AoiNames == { <<"AOI_Inland_bassin">>, <<" ", "Lake", " ", " ", "A", "!">> }

MaxAdminLevel == 3
AdminLevels == 0..MaxAdminLevel

\* values tried for admin1_names and admin2_names (JS arrays of names)
Admin1Lists == { <<>>, << <<"Lisboa">> >>, << <<"Lisboa">>, <<"Beja">> >> }
Admin2Lists == { <<>>, << <<"Odemira">> >>, << <<"Sintra">>, <<"Mertola">> >> }

Range(list) == { list[i] : i \in 1..Len(list) }

\* list.join(', ')
RECURSIVE Join(_)
Join(list) ==
  IF list = <<>> THEN <<>>
  ELSE IF Len(list) = 1 THEN Head(list)
  ELSE Head(list) \o <<", ">> \o Join(Tail(list))

Missing == <<>>

Feat(c, lsib, a0, a1, a2) ==
  [coll |-> c, country_na |-> lsib, ADM0_NAME |-> a0,
   ADM1_NAME |-> a1, ADM2_NAME |-> a2]

\* ee.FeatureCollection("FAO/GAUL/2015/level2"), the rows the model keeps
level2 ==
  { Feat("level2", Missing, <<"Portugal">>, <<"Beja">>, <<"Odemira">>),
    Feat("level2", Missing, <<"Portugal">>, <<"Lisboa">>, <<"Sintra">>),
    Feat("level2", Missing, <<"Portugal">>, <<"Lisboa">>, <<"Odemira">>),
    Feat("level2", Missing, <<"Portugal">>, <<"Beja">>, <<"Mertola">>),
    Feat("level2", Missing, <<"South", " ", "Africa">>, <<"Gauteng">>, <<"Sintra">>) }

level1 ==
  { Feat("level1", Missing, f.ADM0_NAME, f.ADM1_NAME, Missing) : f \in level2 }
    \cup { Feat("level1", Missing, <<"Portugal">>, <<"Faro">>, Missing) }

level0 ==
  { Feat("level0", Missing, f.ADM0_NAME, Missing, Missing) : f \in level2 }

\* ee.FeatureCollection("USDOS/LSIB_SIMPLE/2017")
LSIB ==
  { Feat("LSIB", c, Missing, Missing, Missing) : c \in Countries }
    \cup { Feat("LSIB", <<"Spain">>, Missing, Missing, Missing) }

\* ee.Filter.eq(prop, value) applied to a collection
FilterEq(coll, prop, value) == { f \in coll : f[prop] = value }

\* ee.Filter.inList(prop, list) applied to a collection
FilterInList(coll, prop, list) == { f \in coll : f[prop] \in Range(list) }

-----------------------------------------------------------------------------
(* Values bound to the name AOI                                            *)

Undefined == [type |-> "undefined", features |-> {}]

ImportedFeatures == { Feat("import", Missing, Missing, Missing, Missing) }

FeatureCollection(fs) == [type |-> "FeatureCollection", features |-> fs]
Geometry(fs) == [type |-> "Geometry", features |-> fs]
Feature(fs) == [type |-> "Feature", features |-> fs]

Imports ==
  { Undefined, FeatureCollection(ImportedFeatures),
    Geometry(ImportedFeatures), Feature(ImportedFeatures) }

\* Reading a property of undefined throws a TypeError.
TypeErrorUndefined == <<"TypeError: Cannot read property of undefined">>
TypeErrorNotAFunction == <<"TypeError: not a function">>

\* x.geometry is truthy: collections and features have the method,
\* a bare geometry does not.
HasGeometryMethod(x) == x.type \in {"FeatureCollection", "Feature"}

\* x.style is a function only for collections.
HasStyleMethod(x) == x.type = "FeatureCollection"

\* x.size is a function only for collections.
HasSizeMethod(x) == x.type = "FeatureCollection"

\* x.geometry()
GeometryOf(x) == Geometry(x.features)

\* AOI.geometry ? AOI.geometry() : AOI
ResolveGeometry(x) == IF HasGeometryMethod(x) THEN GeometryOf(x) ELSE x

-----------------------------------------------------------------------------
(* The scripts as statement lists                                          *)

St(op, text) == [op |-> op, text |-> text, kind |-> "", named |-> FALSE, sel |-> <<>>]

LoadAoiSt   == St("load_aoi", <<>>)
Say(t)    == St("print", <<t>>)
Chart       == St("chart", <<>>)
AoiSize     == St("aoi_size", <<>>)
Style       == St("style", <<>>)
Center      == St("center", <<>>)
Layer(t)    == St("layer", t)
GetInfo     == St("getinfo", <<>>)
BuildSel    == St("selectors", <<>>)
Summary(t)  == St("summary", <<t>>)

\* a layer named aoi_label (+ suffix)
LabelVar == "$aoi_label"
\* the selectors variable of the CHIRPS script
SelVar == <<"$selectors">>

\* Export.<kind>.toDrive({description: output_prefix + suffix,
\*                        fileNamePrefix: output_prefix + suffix, selectors: sel})
Export(kind, suffix, sel) ==
  [op |-> "export", text |-> suffix, kind |-> kind, named |-> TRUE, sel |-> sel]

\* Export.table.toDrive({description: literal, selectors: sel}), no fileNamePrefix
ExportLiteral(kind, literal, sel) ==
  [op |-> "export", text |-> literal, kind |-> kind, named |-> FALSE, sel |-> sel]

start_year_GSW == <<"1984">>
end_year_GSW == <<"2021">>
YearsGSW == start_year_GSW \o <<"_">> \o end_year_GSW

ProgramGSW ==
  << LoadAoiSt,
     Say("GSW dataset loaded"),
     Say("GSW Transition Class Values:"),
     Say("GSW Transition Class Names:"),
     Say("GSW Transition Class Palette (from dataset):"),
     Style, Center, Layer(<<LabelVar>>),
     Chart,
     Say("reduction_results"),
     Say("transition_fc"),
     GetInfo, Chart,
     Layer(<<"90% occurrence water mask">>),
     Layer(<<"Water Occurrence">>),
     Layer(<<"Occurrence change intensity">>),
     Layer(<<"Transition classes">>),
     Export("table", <<"_Transition_Summary">>,
            <<"transition_class_number", "transition_class_name", "area_m2">>),
     Export("image", <<"_Water_Mask_gt90">>, <<>>),
     Export("image", <<"_Water_Occurrence_">> \o YearsGSW, <<>>),
     Export("image", <<"_Change_Intensity_">> \o YearsGSW, <<>>),
     Export("image", <<"_Transition_Classes_">> \o YearsGSW, <<>>),
     Summary("=== ALL EXPORTS QUEUED ==="),
     Say("Output prefix:"), Say("AOI:"),
     Say("All files will be saved to Google Drive") >>

ProgramWDPA ==
  << LoadAoiSt,
     Say("Loaded WDPA polygons and points from GEE dataset"),
     Say("PA Polygons in"), Say("PA Points in"),
     Say("Selected columns:"),
     Style, Center, Layer(<<LabelVar, " (boundary)">>),
     GetInfo, Layer(<<"PA Polygons">>),
     GetInfo, Layer(<<"PA Points">>),
     Say("=== SUMMARY STATISTICS ==="),
     Say("Total PAs (Polygons + Points):"),
     Say("PA count by designation:"), Say("aggregate_histogram DESIG_ENG"),
     Say("PA count by governance type:"), Say("aggregate_histogram GOV_TYPE"),
     Layer(<<"PA Binary Raster (1km resolution)">>),
     Layer(<<"PA Area Raster (GIS_AREA, 1km resolution)">>),
     Export("table", <<"_Polygons">>, <<>>),
     Export("table", <<"_Points">>, <<>>),
     Export("image", <<"_Raster_Binary">>, <<>>),
     Export("image", <<"_Raster_Area">>, <<>>),
     Export("table", <<"_Summary_Stats">>, <<>>),
     Summary("=== ALL EXPORTS QUEUED ==="),
     Say("Prefix:"), Say("Exports will appear in Google Drive") >>

start_year_GFC == <<"2000">>
end_year_GFC == <<"2024">>
YearsGFC == start_year_GFC \o <<"_">> \o end_year_GFC

ProgramGFC ==
  << LoadAoiSt,
     Say("Hansen GFC dataset loaded"), Say("Dataset bands:"),
     Style, Layer(<<LabelVar>>), Center,
     Layer(<<"Tree Cover 2000 (%)">>),
     Layer(<<"Forest Loss Year (2000-2024)">>),
     Layer(<<"Forest Loss (binary)">>),
     Layer(<<"Forest Gain (2000-2012, binary)">>),
     Say("=== FOREST CHANGE STATISTICS ==="),
     Say("Forest area 2000 (>25% canopy, ha):"),
     Say("Total forest loss (ha):"),
     Say("Total forest gain (ha, 2000-2012):"),
     Say("Loss by year:"),
     Export("image", <<"_TreeCover2000">>, <<>>),
     Export("image", <<"_Loss_Binary_">> \o YearsGFC, <<>>),
     Export("image", <<"_LossYear_">> \o YearsGFC, <<>>),
     Export("image", <<"_Gain_Binary_2000_2012">>, <<>>),
     Export("image", <<"_Complete_">> \o YearsGFC, <<>>),
     Summary("=== ALL EXPORTS QUEUED ==="),
     Say("Output prefix:"), Say("AOI:"), Say("Time period:"),
     Say("Scale:"), Say("All files will be saved to Google Drive") >>

ProgramNDVI ==
  << LoadAoiSt,
     Say("Landsat 7 images available:"), Say("Sample Landsat image"),
     Say("Baseline images:"),
     Say("Monthly NDVI collection:"),
     Say("Months with empty NDVI:"),
     Say("Mean monthly NDVI (baseline):"),
     Say("Monthly NDVI anomalies (all years):"),
     Say("Monthly NDVI anomalies (study period):"),
     Chart,
     Say("Mean monthly NDVI anomalies:"),
     Style, Layer(<<LabelVar>>), Layer(<<"NDVI anomaly (mean)">>), Center,
     Export("table", <<"_Monthly_Anomalies">>, <<"year", "month", "NDVI">>),
     Export("image", <<"_Mean_Anomaly_", "2000", "_", "2020">>, <<>>),
     Export("image", <<"_Baseline_NDVI_", "2000", "_", "2015">>, <<>>),
     Export("image", <<"_Study_NDVI_", "2015", "_", "2018">>, <<>>),
     Summary("=== ALL EXPORTS QUEUED ==="),
     Say("Output prefix:"), Say("AOI:"), Say("Baseline period:"),
     Say("Study period:"), Say("All files will be saved to Google Drive") >>

ProgramCHIRPS ==
  << LoadAoiSt,
     AoiSize,
     Style, Center, Layer(<<LabelVar>>),
     Say("Study period:"), Say("Baseline period:"),
     Layer(<<"Total precipitation (Study period)">>),
     Layer(<<"Baseline avg precipitation">>),
     Layer(<<"Rainfall anomaly (Study vs Baseline)">>),
     Say("Admin stats:"),
     BuildSel,
     Export("image", <<"_StudyPeriod">>, <<>>),
     Export("image", <<"_Baseline_", "2000", "_", "2015">>, <<>>),
     Export("image", <<"_Anomaly">>, <<>>),
     Export("table", <<"_Admin_Stats">>, SelVar),
     Export("table", <<"_Admin_Boundaries">>, <<>>),
     Summary("All exports queued with prefix:") >>

ProgramGSW1_4 ==
  << LoadAoiSt,
     Say("GSW bands:"),
     Center, Layer(<<LabelVar>>),
     Chart, Chart,
     Say("reduction_results"), Say("groups size"),
     Say("transition_fc (km2)"),
     GetInfo, Chart,
     Layer(<<"Transition (unmasked for display)">>),
     Layer(<<"Max extent (ever water)">>),
     Layer(<<"90% occurrence water mask">>),
     Layer(<<"Water Occurrence">>),
     Layer(<<"Occurrence change intensity">>),
     Layer(<<"Transition classes">>),
     Export("table", <<"_Transition_Summary_km2">>,
            <<"transition_class_number", "transition_class_name", "area_km2">>),
     Export("image", <<"_Water_Mask_gt90">>, <<>>),
     Export("image", <<"_Water_Occurrence_">> \o YearsGSW, <<>>),
     Export("image", <<"_Change_Intensity_">> \o YearsGSW, <<>>),
     Export("image", <<"_Transition_Classes_">> \o YearsGSW, <<>>),
     Summary("=== ALL EXPORTS QUEUED ==="),
     Say("Output prefix:"), Say("AOI:"), Say("HIST_SCALE:"),
     Say("STATS_SCALE:"), Say("EXPORT_SCALE:"),
     Say("Area units in outputs/charts: km2") >>

stats_description == <<"AOI stats elevation">>
percentiles_description == <<"AOI percentiles elevation">>

\* ProgramDEM with the closing message ahead of the last export
ProgramDEM_SummaryEarly ==
  << LoadAoiSt,
     Say("Country:"), Say("AOI loaded:"),
     Style, Layer(<<"AOI_boundary">>), Center,
     Layer(<<"AOI Elevation">>), Layer(country_name \o <<" DEM">>),
     Chart,
     Say("AOI Stats (mean, min, max):"),
     Say("AOI Percentiles (p50, p95):"),
     Export("image", <<"_AOI">>, <<>>),
     Export("image", <<"_">> \o country_name, <<>>),
     ExportLiteral("table", stats_description, <<"mean", "min", "max">>),
     Summary("All exports queued!"),
     ExportLiteral("table", percentiles_description, <<"p50", "p95">>) >>

ProgramDEM ==
  << LoadAoiSt,
     Say("Country:"), Say("AOI loaded:"),
     Style, Layer(<<"AOI_boundary">>), Center,
     Layer(<<"AOI Elevation">>), Layer(country_name \o <<" DEM">>),
     Chart,
     Say("AOI Stats (mean, min, max):"),
     Say("AOI Percentiles (p50, p95):"),
     Export("image", <<"_AOI">>, <<>>),
     Export("image", <<"_">> \o country_name, <<>>),
     ExportLiteral("table", stats_description, <<"mean", "min", "max">>),
     ExportLiteral("table", percentiles_description, <<"p50", "p95">>),
     Summary("All exports queued!") >>

Program ==
  CASE script = "GSW"    -> ProgramGSW
    [] script = "WDPA"   -> ProgramWDPA
    [] script = "GFC"    -> ProgramGFC
    [] script = "NDVI"   -> ProgramNDVI
    [] script = "CHIRPS" -> ProgramCHIRPS
    [] script = "GSW1_4" -> ProgramGSW1_4
    [] script = "DEM"    -> ProgramDEM

\* var output_prefix = '<dataset>_' + country_name (unset in GSW1_4)
InitialPrefix(sc, country) ==
  CASE sc = "GSW"    -> <<"GSW_">> \o country
    [] sc = "WDPA"   -> <<"WDPA_">> \o country
    [] sc = "GFC"    -> <<"GFC_">> \o country
    [] sc = "NDVI"   -> <<"NDVI_Anomaly_">> \o country
    [] sc = "CHIRPS" -> <<"Rainfall_">> \o country
    [] sc = "GSW1_4" -> Unset
    [] sc = "DEM"    -> <<"DEM_Elevation">>

-----------------------------------------------------------------------------
(* Initial state: the settings block has run, the Imports panel is bound   *)

RainIdle == [phase |-> "idle"]
Idle == [phase |-> "idle"]

Init ==
  /\ script \in Scripts
  /\ country_name \in Countries
  /\ use_custom_aoi \in (IF script = "DEM" THEN {TRUE} ELSE BOOLEAN)
  /\ aoi_name \in (IF script = "GSW1_4" THEN AoiNames ELSE {<<"AOI_Inland_bassin">>})
  /\ admin_level \in (IF script = "CHIRPS" THEN AdminLevels ELSE {2})
  /\ admin1_names \in (IF script = "CHIRPS" THEN Admin1Lists ELSE {<<>>})
  /\ admin2_names \in (IF script = "CHIRPS" THEN Admin2Lists ELSE {<<>>})
  /\ imported \in Imports
  /\ AOI = imported
  /\ AOI_geometry = Undefined
  /\ aoi_label = Unset
  /\ output_prefix = InitialPrefix(script, country_name)
  /\ selectors = Unset
  /\ pc = 1
  /\ error = NoError
  /\ printed = <<>>
  /\ mapLayers = <<>>
  /\ exports = <<>>
  /\ rain = RainIdle
  /\ forest = Idle
  /\ stats = Idle
  /\ ndvi = Idle

Running == error = NoError /\ pc <= Len(Program)
Finished == error = NoError /\ pc = Len(Program) + 1
At(op) == Running /\ Program[pc].op = op

Text(t) == [kind |-> "text", text |-> t]

\* throw new Error(msg) / an uncaught TypeError: the run stops where it is
Throw(msg) ==
  /\ error' = msg
  /\ UNCHANGED <<settings, AOI, AOI_geometry, aoi_label, output_prefix,
                 selectors, pc, printed, mapLayers, exports, rain, forest, stats, ndvi>>

\* the AOI block ran to its end
Loaded(aoi, geom, label, prefix, msg) ==
  /\ AOI' = aoi
  /\ AOI_geometry' = geom
  /\ aoi_label' = label
  /\ output_prefix' = prefix
  /\ printed' = Append(printed, Text(<<msg>>))
  /\ pc' = pc + 1
  /\ UNCHANGED <<settings, selectors, error, mapLayers, exports, rain, forest, stats, ndvi>>

CustomLabel == <<"Custom AOI (imported)">>
CountryLabel(country) == country \o <<" (entire country)">>
CountryAOI(country) == FeatureCollection(FilterEq(LSIB, "country_na", country))

\* LoadAOI with the country branch appending the custom-AOI suffix
LoadAOI_SameSuffix ==
  /\ At("load_aoi")
  /\ script \in {"GSW", "WDPA", "NDVI"}
  /\ IF use_custom_aoi
     THEN IF AOI.type = "undefined"
          THEN Throw(TypeErrorUndefined)
          ELSE Loaded(AOI, ResolveGeometry(AOI), CustomLabel,
                      output_prefix \o <<"_CustomAOI">>,
                      "Using custom AOI from Imports panel")
     ELSE Loaded(CountryAOI(country_name), GeometryOf(CountryAOI(country_name)),
                 CountryLabel(country_name), output_prefix \o <<"_CustomAOI">>,
                 "Using entire country:")

\* GSW, WDPA and NDVI: if (use_custom_aoi) {...} else {... LSIB ...}
LoadAOI ==
  /\ At("load_aoi")
  /\ script \in {"GSW", "WDPA", "NDVI"}
  /\ IF use_custom_aoi
     THEN IF AOI.type = "undefined"
          THEN Throw(TypeErrorUndefined)
          ELSE Loaded(AOI, ResolveGeometry(AOI), CustomLabel,
                      output_prefix \o <<"_CustomAOI">>,
                      "Using custom AOI from Imports panel")
     ELSE Loaded(CountryAOI(country_name), GeometryOf(CountryAOI(country_name)),
                 CountryLabel(country_name), output_prefix \o <<"_Country">>,
                 "Using entire country:")

\* AOI.type && AOI.type() === 'Geometry': type() is the GeoJSON type of the
\* imported shape ('Polygon', 'Point', ...), never the string 'Geometry'.
TypeCallIsGeometry(x) == FALSE

\* GFC: the four-way resolution of AOI_geometry
ResolveGeometryGFC(x) ==
  IF HasGeometryMethod(x) THEN GeometryOf(x)
  ELSE IF TypeCallIsGeometry(x) THEN x
  ELSE IF x.type = "FeatureCollection" THEN GeometryOf(x)
  ELSE x

LoadAOI_GFC ==
  /\ At("load_aoi")
  /\ script = "GFC"
  /\ IF use_custom_aoi
     THEN IF AOI.type = "undefined"
          THEN Throw(TypeErrorUndefined)
          ELSE /\ Loaded(AOI, ResolveGeometryGFC(AOI), CustomLabel,
                         output_prefix \o <<"_CustomAOI">>,
                         "Using custom AOI from Imports panel")
     ELSE Loaded(CountryAOI(country_name), GeometryOf(CountryAOI(country_name)),
                 CountryLabel(country_name), output_prefix \o <<"_Country">>,
                 "Using entire country:")

NoAoiImported ==
  <<"use_custom_aoi=true, but no AOI was imported. Import AOI in the Imports panel.">>

\* LoadAOI_GSW1_4 without the typeof guard
LoadAOI_GSW1_4_NoGuard ==
  /\ At("load_aoi")
  /\ script = "GSW1_4"
  /\ IF use_custom_aoi
     THEN Loaded(AOI, ResolveGeometry(AOI), aoi_name,
                 <<"GSW_">> \o slugifyName(aoi_name),
                 "Using custom AOI from Imports panel:")
     ELSE Loaded(CountryAOI(country_name), GeometryOf(CountryAOI(country_name)),
                 CountryLabel(country_name),
                 <<"GSW_">> \o slugifyName(country_name),
                 "Using entire country:")

\* GSW1_4: typeof check, label and prefix from aoi_name / country_name
LoadAOI_GSW1_4 ==
  /\ At("load_aoi")
  /\ script = "GSW1_4"
  /\ IF use_custom_aoi
     THEN IF AOI.type = "undefined"
          THEN Throw(NoAoiImported)
          ELSE Loaded(AOI, ResolveGeometry(AOI), aoi_name,
                      <<"GSW_">> \o slugifyName(aoi_name),
                      "Using custom AOI from Imports panel:")
     ELSE Loaded(CountryAOI(country_name), GeometryOf(CountryAOI(country_name)),
                 CountryLabel(country_name),
                 <<"GSW_">> \o slugifyName(country_name),
                 "Using entire country:")

BadAdminLevel == <<"admin_level must be 0, 1, or 2">>

\* the number admin_level concatenated to a string
NumStr(n) ==
  CASE n = 0 -> "0" [] n = 1 -> "1" [] n = 2 -> "2" [] n = 3 -> "3"
    [] n = 4 -> "4" [] OTHER -> "n"

\* AdminAOI with the level-2 name filter applied to the unfiltered country units
AdminAOI_Admin2Only(level, country, names1, names2) ==
  CASE level = 0 -> FilterEq(level0, "ADM0_NAME", country)
    [] level = 1 ->
         IF Len(names1) > 0
         THEN FilterInList(FilterEq(level1, "ADM0_NAME", country), "ADM1_NAME", names1)
         ELSE FilterEq(level1, "ADM0_NAME", country)
    [] level = 2 ->
         LET byCountry == FilterEq(level2, "ADM0_NAME", country)
             by1 == IF Len(names1) > 0
                    THEN FilterInList(byCountry, "ADM1_NAME", names1)
                    ELSE byCountry
         IN IF Len(names2) > 0
            THEN FilterInList(byCountry, "ADM2_NAME", names2)
            ELSE by1

\* CHIRPS, admin branch: the AOI for levels 0, 1, 2
AdminAOI(level, country, names1, names2) ==
  CASE level = 0 -> FilterEq(level0, "ADM0_NAME", country)
    [] level = 1 ->
         IF Len(names1) > 0
         THEN FilterInList(FilterEq(level1, "ADM0_NAME", country), "ADM1_NAME", names1)
         ELSE FilterEq(level1, "ADM0_NAME", country)
    [] level = 2 ->
         LET byCountry == FilterEq(level2, "ADM0_NAME", country)
             by1 == IF Len(names1) > 0
                    THEN FilterInList(byCountry, "ADM1_NAME", names1)
                    ELSE byCountry
         IN IF Len(names2) > 0
            THEN FilterInList(by1, "ADM2_NAME", names2)
            ELSE by1

\* CHIRPS, admin branch: aoi_label for levels 0, 1, 2
AdminLabel(level, country, names1, names2) ==
  CASE level = 0 -> country \o <<" (Level 0)">>
    [] level = 1 ->
         IF Len(names1) > 0
         THEN country \o <<" (Level 1: ">> \o Join(names1) \o <<")">>
         ELSE country \o <<" (All Level 1)">>
    [] level = 2 ->
         IF Len(names2) > 0
         THEN country \o <<" (Level 2: ">> \o Join(names2) \o <<")">>
         ELSE country \o <<" (All Level 2)">>

\* LoadAOI_CHIRPS falling through to the level-0 country AOI on an unknown level
LoadAOI_CHIRPS_NoThrow ==
  /\ At("load_aoi")
  /\ script = "CHIRPS"
  /\ IF use_custom_aoi
     THEN IF AOI.type = "undefined"
          THEN Throw(TypeErrorUndefined)
          ELSE Loaded(AOI, ResolveGeometry(AOI), CustomLabel,
                      output_prefix \o <<"_CustomAOI">>,
                      "Using custom AOI from Imports panel")
     ELSE LET level == IF admin_level \in {0, 1, 2} THEN admin_level ELSE 0
              aoi == FeatureCollection(
                       AdminAOI(level, country_name, admin1_names, admin2_names))
          IN Loaded(aoi, GeometryOf(aoi),
                    AdminLabel(level, country_name, admin1_names, admin2_names),
                    output_prefix \o <<"_AdminLevel", NumStr(admin_level)>>,
                    "Using GAUL admin boundaries:")

LoadAOI_CHIRPS ==
  /\ At("load_aoi")
  /\ script = "CHIRPS"
  /\ IF use_custom_aoi
     THEN IF AOI.type = "undefined"
          THEN Throw(TypeErrorUndefined)
          ELSE Loaded(AOI, ResolveGeometry(AOI), CustomLabel,
                      output_prefix \o <<"_CustomAOI">>,
                      "Using custom AOI from Imports panel")
     ELSE IF admin_level \notin {0, 1, 2}
          THEN Throw(BadAdminLevel)
          ELSE LET aoi == FeatureCollection(
                            AdminAOI(admin_level, country_name, admin1_names, admin2_names))
               IN Loaded(aoi, GeometryOf(aoi),
                         AdminLabel(admin_level, country_name, admin1_names, admin2_names),
                         output_prefix \o <<"_AdminLevel", NumStr(admin_level)>>,
                         "Using GAUL admin boundaries:")

ReferenceErrorAOI == <<"ReferenceError: AOI is not defined">>

\* DEM: var AOI_geometry = AOI.geometry ? AOI.geometry() : AOI;
LoadAOI_DEM ==
  /\ At("load_aoi")
  /\ script = "DEM"
  /\ IF AOI.type = "undefined"
     THEN Throw(ReferenceErrorAOI)
     ELSE /\ AOI_geometry' = ResolveGeometry(AOI)
          /\ pc' = pc + 1
          /\ UNCHANGED <<settings, AOI, aoi_label, output_prefix, selectors,
                         error, printed, mapLayers, exports, rain, forest, stats, ndvi>>

-----------------------------------------------------------------------------
(* The statements after the AOI block                                      *)

Advance(unch) == pc' = pc + 1 /\ UNCHANGED unch

\* print(...)
PrintMsg ==
  /\ At("print")
  /\ printed' = Append(printed, Text(Program[pc].text))
  /\ Advance(<<settings, AOI, AOI_geometry, aoi_label, output_prefix,
               selectors, error, mapLayers, exports, rain, forest, stats, ndvi>>)

\* print(chart)
PrintChart ==
  /\ At("chart")
  /\ printed' = Append(printed, [kind |-> "chart", text |-> <<>>])
  /\ Advance(<<settings, AOI, AOI_geometry, aoi_label, output_prefix,
               selectors, error, mapLayers, exports, rain, forest, stats, ndvi>>)

\* print("AOI feature count:", AOI.size())
PrintAoiSize ==
  /\ At("aoi_size")
  /\ IF HasSizeMethod(AOI)
     THEN /\ printed' = Append(printed, Text(<<"AOI feature count:">>))
          /\ Advance(<<settings, AOI, AOI_geometry, aoi_label, output_prefix,
                       selectors, error, mapLayers, exports, rain, forest, stats, ndvi>>)
     ELSE Throw(TypeErrorNotAFunction)

\* var AOI_Vis = AOI.style({...})
MapStyle ==
  /\ At("style")
  /\ IF HasStyleMethod(AOI)
     THEN Advance(<<settings, AOI, AOI_geometry, aoi_label, output_prefix,
                    selectors, error, printed, mapLayers, exports, rain, forest, stats, ndvi>>)
     ELSE Throw(TypeErrorNotAFunction)

\* Map.centerObject(AOI_geometry, zoom)
CenterObject ==
  /\ At("center")
  /\ Advance(<<settings, AOI, AOI_geometry, aoi_label, output_prefix,
               selectors, error, printed, mapLayers, exports, rain, forest, stats, ndvi>>)

LayerName(t) == IF Head(t) = LabelVar THEN aoi_label \o Tail(t) ELSE t

\* Map.addLayer(image, vis, name)
AddLayer ==
  /\ At("layer")
  /\ mapLayers' = Append(mapLayers, LayerName(Program[pc].text))
  /\ Advance(<<settings, AOI, AOI_geometry, aoi_label, output_prefix,
               selectors, error, printed, exports, rain, forest, stats, ndvi>>)

\* a synchronous .getInfo() that the server answers
GetInfoOk ==
  /\ At("getinfo")
  /\ Advance(<<settings, AOI, AOI_geometry, aoi_label, output_prefix,
               selectors, error, printed, mapLayers, exports, rain, forest, stats, ndvi>>)

ServerError == <<"EEException">>

\* a synchronous .getInfo() that the server rejects: the call throws
GetInfoFail ==
  /\ At("getinfo")
  /\ Throw(ServerError)

BaseColumns == <<"longitude", "latitude", "mean", "min", "max", "sum">>

\* CHIRPS: var selectors = [...]; if (admin_level === 1) ...; if (admin_level === 2) ...
BuildSelectors(level) ==
  IF level = 2 THEN <<"ADM0_NAME", "ADM1_NAME", "ADM2_NAME">> \o BaseColumns
  ELSE IF level = 1 THEN <<"ADM0_NAME", "ADM1_NAME">> \o BaseColumns
  ELSE <<"ADM0_NAME">> \o BaseColumns

SetSelectors ==
  /\ At("selectors")
  /\ selectors' = BuildSelectors(admin_level)
  /\ Advance(<<settings, AOI, AOI_geometry, aoi_label, output_prefix,
               error, printed, mapLayers, exports, rain, forest, stats, ndvi>>)

NoFileNamePrefix == <<"<none>">>

\* ExportName without the prefix
ExportName_NoPrefix(st, prefix) == st.text

\* description / fileNamePrefix of an export statement
ExportName(st, prefix) == IF st.named THEN prefix \o st.text ELSE st.text

\* the request an Export.*.toDrive call queues
ExportRequest(st, prefix, sel) ==
  [kind |-> st.kind,
   description |-> ExportName(st, prefix),
   fileNamePrefix |-> IF st.named THEN ExportName(st, prefix) ELSE NoFileNamePrefix,
   selectors |-> IF st.sel = SelVar THEN sel ELSE st.sel]

\* Export.image.toDrive / Export.table.toDrive
QueueExport ==
  /\ At("export")
  /\ exports' = Append(exports, ExportRequest(Program[pc], output_prefix, selectors))
  /\ Advance(<<settings, AOI, AOI_geometry, aoi_label, output_prefix,
               selectors, error, printed, mapLayers, rain, forest, stats, ndvi>>)

\* the closing 'ALL EXPORTS QUEUED' print
RunSummary ==
  /\ At("summary")
  /\ printed' = Append(printed, [kind |-> "summary", text |-> Program[pc].text])
  /\ Advance(<<settings, AOI, AOI_geometry, aoi_label, output_prefix,
               selectors, error, mapLayers, exports, rain, forest, stats, ndvi>>)

Next ==
  \/ LoadAOI
  \/ LoadAOI_GFC
  \/ LoadAOI_GSW1_4
  \/ LoadAOI_CHIRPS
  \/ LoadAOI_DEM
  \/ PrintMsg
  \/ PrintChart
  \/ PrintAoiSize
  \/ MapStyle
  \/ CenterObject
  \/ AddLayer
  \/ GetInfoOk
  \/ GetInfoFail
  \/ SetSelectors
  \/ QueueExport
  \/ RunSummary

Spec == Init /\ [][Next]_vars

-----------------------------------------------------------------------------
(* Claims about the AOI block                                              *)

LSIBScripts == {"GSW", "WDPA", "GFC", "NDVI"}
AoiSuffixes == {"_Country", "_CustomAOI"}

\* number of AOI-mode suffixes in a prefix
SuffixCount(prefix) == Cardinality({ i \in 1..Len(prefix) : prefix[i] \in AoiSuffixes })

\* C1: in GSW, WDPA, GFC and NDVI, once the AOI block has run, country mode
\* gives the LSIB rows of the country, the label '<country> (entire country)'
\* and the prefix + '_Country'; custom mode gives the imported AOI, the label
\* 'Custom AOI (imported)' and the prefix + '_CustomAOI'; one suffix, once.
C1_AoiModeSuffix ==
  script \in LSIBScripts =>
    /\ pc = 1 => output_prefix = InitialPrefix(script, country_name)
    /\ pc > 1 =>
         /\ SuffixCount(output_prefix) = 1
         /\ IF use_custom_aoi
            THEN /\ AOI = imported
                 /\ aoi_label = <<"Custom AOI (imported)">>
                 /\ output_prefix = InitialPrefix(script, country_name) \o <<"_CustomAOI">>
            ELSE /\ AOI.type = "FeatureCollection"
                 /\ AOI.features = { f \in LSIB : f.country_na = country_name }
                 /\ aoi_label = country_name \o <<" (entire country)">>
                 /\ output_prefix = InitialPrefix(script, country_name) \o <<"_Country">>

C1_Witness ==
  /\ script \in LSIBScripts
  /\ ~use_custom_aoi
  /\ Len(exports) > 0
  /\ output_prefix[Len(output_prefix)] = "_Country"

NoChartPrinted == \A i \in 1..Len(printed) : printed[i].kind # "chart"

\* C2: GSW1_4 with use_custom_aoi = true and no imported AOI throws the
\* 'no AOI was imported' error before any layer, chart or export, with
\* output_prefix still unset.
C2_MissingAoiThrows ==
  (script = "GSW1_4" /\ use_custom_aoi /\ imported = Undefined
     /\ ~(pc = 1 /\ error = NoError)) =>
    /\ error = <<"use_custom_aoi=true, but no AOI was imported. Import AOI in the Imports panel.">>
    /\ pc = 1
    /\ mapLayers = <<>>
    /\ NoChartPrinted
    /\ exports = <<>>
    /\ output_prefix = Unset

C2_Witness ==
  /\ script = "GSW1_4" /\ use_custom_aoi /\ imported = Undefined
  /\ error = NoAoiImported

\* C3: GFC with use_custom_aoi = true handles FeatureCollection and Geometry
\* AOIs alike: the run does not throw and goes on to queue its five exports.
C3_GfcHandlesGeometry ==
  (script = "GFC" /\ use_custom_aoi
     /\ imported.type \in {"FeatureCollection", "Geometry"}) =>
    /\ error = NoError
    /\ Finished => Len(exports) = 5

\* C4: CHIRPS in admin mode throws 'admin_level must be 0, 1, or 2' for any
\* other level, before AOIgeom, the prefix suffix, a layer or an export; for
\* 0, 1, 2 nothing is thrown and the prefix gets '_AdminLevel' + level.
C4_AdminLevelChecked ==
  (script = "CHIRPS" /\ ~use_custom_aoi) =>
    IF admin_level \in {0, 1, 2}
    THEN /\ error = NoError
         /\ pc > 1 =>
              output_prefix = <<"Rainfall_">> \o country_name \o
                <<"_AdminLevel", CASE admin_level = 0 -> "0"
                                   [] admin_level = 1 -> "1"
                                   [] admin_level = 2 -> "2">>
    ELSE /\ pc = 1
         /\ error # NoError => error = <<"admin_level must be 0, 1, or 2">>
         /\ AOI_geometry = Undefined
         /\ output_prefix = <<"Rainfall_">> \o country_name
         /\ mapLayers = <<>>
         /\ exports = <<>>

C4_Witness ==
  /\ script = "CHIRPS" /\ ~use_custom_aoi
  /\ admin_level = 3
  /\ error = BadAdminLevel

\* the exports a finished CHIRPS run would hold had admin_level been a
ExportIndices == { i \in 1..Len(ProgramCHIRPS) : ProgramCHIRPS[i].op = "export" }
FirstExport == CHOOSE i \in ExportIndices : \A j \in ExportIndices : i <= j
ExportsWithLevel(a) ==
  [ k \in 1..Cardinality(ExportIndices) |->
      ExportRequest(ProgramCHIRPS[FirstExport + k - 1], output_prefix, BuildSelectors(a)) ]

\* C5: CHIRPS with use_custom_aoi = true ignores admin_level: the AOI, label,
\* prefix and export requests (selectors of Admin_Stats included) are those of
\* a run with any other admin_level.
C5_AdminLevelIgnored ==
  (script = "CHIRPS" /\ use_custom_aoi /\ Finished) =>
    /\ AOI = imported
    /\ aoi_label = <<"Custom AOI (imported)">>
    /\ output_prefix = <<"Rainfall_">> \o country_name \o <<"_CustomAOI">>
    /\ \A a \in AdminLevels : exports = ExportsWithLevel(a)

\* C6: CHIRPS in admin mode: level 0 is the country's level-0 rows; level 1
\* the country's level-1 rows, cut to admin1_names when that list is not
\* empty; level 2 the country's level-2 rows, cut to admin1_names and to
\* admin2_names, each when not empty.
C6_NameFilters ==
  (script = "CHIRPS" /\ ~use_custom_aoi /\ pc > 1) =>
    /\ AOI.type = "FeatureCollection"
    /\ admin_level = 0 =>
         AOI.features = { f \in level0 : f.ADM0_NAME = country_name }
    /\ admin_level = 1 =>
         AOI.features =
           { f \in level1 :
               /\ f.ADM0_NAME = country_name
               /\ admin1_names = <<>> \/ \E i \in 1..Len(admin1_names) : f.ADM1_NAME = admin1_names[i] }
    /\ admin_level = 2 =>
         AOI.features =
           { f \in level2 :
               /\ f.ADM0_NAME = country_name
               /\ admin1_names = <<>> \/ \E i \in 1..Len(admin1_names) : f.ADM1_NAME = admin1_names[i]
               /\ admin2_names = <<>> \/ \E i \in 1..Len(admin2_names) : f.ADM2_NAME = admin2_names[i] }

C6_Witness ==
  /\ script = "CHIRPS" /\ ~use_custom_aoi /\ pc > 1
  /\ admin_level = 2
  /\ admin1_names = << <<"Lisboa">> >>
  /\ admin2_names = << <<"Odemira">> >>
  /\ Cardinality(AOI.features) = 1

-----------------------------------------------------------------------------
(* Claims about export names                                               *)

\* C9: every export of the DEM script has a description that begins with
\* output_prefix.
C9_DemExportsPrefixed ==
  script = "DEM" =>
    \A i \in 1..Len(exports) : StartsWith(exports[i].description, output_prefix)

\* C10: in every script but DEM, each queued export has description =
\* fileNamePrefix, beginning with output_prefix as it stands after the AOI
\* block (suffixed, or 'GSW_' + slug in GSW1_4), never the initial prefix.
C10_ExportsUseFinalPrefix ==
  (script # "DEM" /\ exports # <<>>) =>
    /\ pc > 1
    /\ output_prefix # InitialPrefix(script, country_name)
    /\ script # "GSW1_4" =>
         /\ StartsWith(output_prefix, InitialPrefix(script, country_name))
         /\ Len(output_prefix) = Len(InitialPrefix(script, country_name)) + 1
                                 + (IF script = "CHIRPS" /\ ~use_custom_aoi THEN 1 ELSE 0)
    /\ script = "GSW1_4" =>
         /\ Head(output_prefix) = "GSW_"
         /\ \A i \in 2..Len(output_prefix) :
              output_prefix[i] \notin (WhiteSpace \cup Punctuation)
    /\ \A i \in 1..Len(exports) :
         /\ exports[i].description = exports[i].fileNamePrefix
         /\ StartsWith(exports[i].description, output_prefix)
         /\ Len(exports[i].description) > Len(output_prefix)

C10_Witness ==
  /\ script = "GSW1_4" /\ use_custom_aoi
  /\ aoi_name = <<" ", "Lake", " ", " ", "A", "!">>
  /\ output_prefix = <<"GSW_", "Lake", "_", "A">>
  /\ Len(exports) = 5
  /\ Finished

-----------------------------------------------------------------------------
(* CHIRPS rainfall arithmetic at one pixel                                 *)
(*                                                                         *)
(* The daily collection holds one image per calendar day.  A pixel of an   *)
(* image is a rational num/den or is masked.  Reducing a collection skips  *)
(* masked pixels; reducing nothing leaves the pixel masked.                *)

NumYears == 2
DaysInYear == 2
RainValues == {1, 2}

Years == 1..NumYears
Doys == 1..DaysInYear
Days == { <<y, d>> : y \in Years, d \in Doys }

\* system:time_start of a daily image, in days
TimeOf(day) == (day[1] - 1) * DaysInYear + day[2]
Times == { TimeOf(day) : day \in Days }

Masked == [valid |-> FALSE, num |-> 0, den |-> 1]
Value(n) == [valid |-> TRUE, num |-> n, den |-> 1]

RECURSIVE SumOver(_, _)
SumOver(f, S) ==
  IF S = {} THEN 0
  ELSE LET x == CHOOSE x \in S : TRUE IN f[x] + SumOver(f, S \ {x})

\* ee.Filter.date(start, end): start inclusive, end exclusive
FilterDate(coll, start, end) ==
  { day \in coll : start <= TimeOf(day) /\ TimeOf(day) < end }

\* ee.Filter.dayOfYear(start, end): both inclusive
FilterDayOfYear(coll, start, end) ==
  { day \in coll : start <= day[2] /\ day[2] <= end }

\* ee.Filter.calendarRange(y, y, 'year')
FilterYear(coll, y) == { day \in coll : day[1] = y }

\* ListSequence stopping one short of end
ListSequence_EndExclusive(start, end) == [ i \in 1..(end - start) |-> start + i - 1 ]

\* ee.List.sequence(start, end): both inclusive
ListSequence(start, end) == [ i \in 1..(end - start + 1) |-> start + i - 1 ]

\* the pixel of one daily image
DailyPixel(r, day) == IF r.land THEN Value(r.daily[day]) ELSE Masked

\* ImageCollection.sum() at the pixel
SumImages(r, coll) ==
  LET live == { day \in coll : DailyPixel(r, day).valid }
  IN IF live = {} THEN Masked
     ELSE Value(SumOver([day \in live |-> DailyPixel(r, day).num], live))

\* image.clip(AOIgeom) at the pixel
Clip(r, px) == IF r.inAOI THEN px ELSE Masked

\* ImageCollection.fromImages(list).mean() at the pixel, for images of whole values
MeanImages(list) ==
  LET live == { i \in 1..Len(list) : list[i].valid }
  IN IF live = {} THEN Masked
     ELSE [valid |-> TRUE,
           num |-> SumOver([i \in live |-> list[i].num], live),
           den |-> Cardinality(live)]

\* image.mask() at the pixel: 1 where valid, 0 where not
MaskOf(px) == IF px.valid THEN 1 ELSE 0

\* image.updateMask(mask) at the pixel
UpdateMask(px, mask) == IF px.valid /\ mask # 0 THEN px ELSE Masked

\* a.subtract(b) at the pixel: masked where either operand is
Subtract(a, b) ==
  IF a.valid /\ b.valid
  THEN [valid |-> TRUE, num |-> a.num * b.den - b.num * a.den, den |-> a.den * b.den]
  ELSE Masked

\* chirps.filter(ee.Filter.date(study_start, study_end)).sum().clip(AOIgeom)
StudyTotal(r) == Clip(r, SumImages(r, FilterDate(Days, r.study_start, r.study_end)))

\* the image the years.map callback returns for year y
YearTotal(r, y) ==
  Clip(r, SumImages(r, FilterYear(FilterDayOfYear(Days, r.doy_start, r.doy_end), y)))

\* ee.ImageCollection.fromImages(years.map(...)).mean()
Baseline(r) ==
  LET years == ListSequence(r.baseline_start_year, r.baseline_end_year)
  IN MeanImages([ i \in 1..Len(years) |-> YearTotal(r, years[i]) ])

\* chirps_study.subtract(chirps_baseline.updateMask(chirps_study.mask())).clip(AOIgeom)
Anomaly(r, study, baseline) ==
  Clip(r, Subtract(study, UpdateMask(baseline, MaskOf(study))))

\* the settings and the data of one run, nothing computed yet
RainSettings(l, a, d, s, e, by, bz, ds, de) ==
  [phase |-> "settings", land |-> l, inAOI |-> a, daily |-> d,
   study_start |-> s, study_end |-> e,
   baseline_start_year |-> by, baseline_end_year |-> bz,
   doy_start |-> ds, doy_end |-> de,
   chirps_study |-> Masked, chirps_baseline |-> Masked,
   rainfall_anomaly |-> Masked]

InitRain ==
  /\ script = "CHIRPS"
  /\ country_name = <<"Portugal">>
  /\ use_custom_aoi = FALSE
  /\ aoi_name = <<"AOI_Inland_bassin">>
  /\ admin_level = 2
  /\ admin1_names = <<>>
  /\ admin2_names = << <<"Odemira">> >>
  /\ imported = Undefined
  /\ AOI = imported
  /\ AOI_geometry = Undefined
  /\ aoi_label = Unset
  /\ output_prefix = InitialPrefix(script, country_name)
  /\ selectors = Unset
  /\ pc = 1
  /\ error = NoError
  /\ printed = <<>>
  /\ mapLayers = <<>>
  /\ exports = <<>>
  /\ \E l \in BOOLEAN, a \in BOOLEAN :
       \E d \in (IF l /\ a THEN [Days -> RainValues] ELSE {[day \in Days |-> 1]}) :
         \E s \in Times, by \in Years, ds \in Doys :
           \E e \in { t \in Times : s <= t },
              bz \in { y \in Years : by <= y },
              de \in { x \in Doys : ds <= x } :
             rain = RainSettings(l, a, d, s, e, by, bz, ds, de)
  /\ forest = Idle
  /\ stats = Idle
  /\ ndvi = Idle

RainUnchanged ==
  UNCHANGED <<settings, AOI, AOI_geometry, aoi_label, output_prefix, selectors,
              pc, error, printed, mapLayers, exports, forest, stats, ndvi>>

\* var chirps_study = ...
ComputeStudy ==
  /\ rain.phase = "settings"
  /\ rain' = [rain EXCEPT !.phase = "study", !.chirps_study = StudyTotal(rain)]
  /\ RainUnchanged

\* var chirps_baseline = ...
ComputeBaseline ==
  /\ rain.phase = "study"
  /\ rain' = [rain EXCEPT !.phase = "baseline", !.chirps_baseline = Baseline(rain)]
  /\ RainUnchanged

\* var rainfall_anomaly = ...
ComputeAnomaly ==
  /\ rain.phase = "baseline"
  /\ rain' = [rain EXCEPT !.phase = "anomaly",
                          !.rainfall_anomaly =
                             Anomaly(rain, rain.chirps_study, rain.chirps_baseline)]
  /\ RainUnchanged

NextRain == ComputeStudy \/ ComputeBaseline \/ ComputeAnomaly

SpecRain == InitRain /\ [][NextRain]_vars

-----------------------------------------------------------------------------
(* Claims about the rainfall layers                                        *)

RainComputed == rain.phase = "anomaly"

\* sum of the daily values of year y with day of year in [doy_start, doy_end]
SeasonTotal(y) ==
  LET season == { d \in Doys : rain.doy_start <= d /\ d <= rain.doy_end }
  IN SumOver([d \in season |-> rain.daily[<<y, d>>]], season)

BaselineYears ==
  { y \in Years : rain.baseline_start_year <= y /\ y <= rain.baseline_end_year }

\* the days the study-period date filter lets through: from study_start up
\* to, not including, study_end
StudyDays ==
  { day \in Days : rain.study_start <= TimeOf(day) /\ TimeOf(day) < rain.study_end }

\* C7: the anomaly is the study total minus the baseline, the study total
\* being the sum of the daily values the study-period filter selects and the
\* baseline the mean over the baseline years (both ends included) of each
\* year's sum of the days in the day-of-year window; the baseline is masked
\* by the study total, so the anomaly is defined exactly where the study
\* total is.
C7_AnomalyComposition ==
  RainComputed =>
    LET n == Cardinality(BaselineYears)
        total == SumOver([y \in BaselineYears |-> SeasonTotal(y)], BaselineYears)
        study == rain.chirps_study
        base == rain.chirps_baseline
        anom == rain.rainfall_anomaly
    IN /\ anom.valid <=> study.valid
       /\ study.valid =>
            /\ study.den = 1
            /\ study.num = SumOver([day \in StudyDays |-> rain.daily[day]], StudyDays)
       /\ base.valid => base.num * n = total * base.den
       /\ anom.valid => anom.num * n = (study.num * n - total * study.den) * anom.den

C7_Witness ==
  /\ RainComputed
  /\ rain.rainfall_anomaly.valid
  /\ rain.baseline_start_year < rain.baseline_end_year
  /\ rain.doy_start < rain.doy_end
  /\ rain.rainfall_anomaly.den = 2
  /\ rain.rainfall_anomaly.num = 1

\* C8: the study total sums the daily image of every day from study_start to
\* study_end, both days included.
C8_StudyPeriodInclusive ==
  (rain.phase \in {"study", "baseline", "anomaly"} /\ rain.land /\ rain.inAOI) =>
    LET period == { day \in Days :
                      rain.study_start <= TimeOf(day) /\ TimeOf(day) <= rain.study_end }
    IN /\ rain.chirps_study.valid
       /\ rain.chirps_study.num = SumOver([day \in period |-> rain.daily[day]], period)

-----------------------------------------------------------------------------
(* Claims about the closing message                                        *)

SummaryPrinted == \E i \in 1..Len(printed) : printed[i].kind = "summary"

\* number of export statements of the running script
ExportCount == Cardinality({ i \in 1..Len(Program) : Program[i].op = "export" })

\* C11: in every script the closing 'exports queued' message is printed only
\* once every export request of the script is issued, none is issued after
\* it, and a run in which a step threw never prints it.
C11_SummaryAfterExports ==
  /\ SummaryPrinted => (Len(exports) = ExportCount /\ error = NoError)
  /\ error # NoError => ~SummaryPrinted
  /\ Len(exports) <= ExportCount

C11_Witness ==
  /\ script = "WDPA"
  /\ SummaryPrinted
  /\ Len(exports) = 5
  /\ Finished

-----------------------------------------------------------------------------
(* GFC forest statistics over the pixels of the region                     *)
(*                                                                         *)
(* A pixel carries its treecover2000, loss and gain bands, its area in     *)
(* square metres (ee.Image.pixelArea()) and whether it lies in the AOI.    *)
(* Band values are rationals num/den.                                      *)

NumPixels == 2
Pixels == 1..NumPixels
TreeCoverValues == {0, 25, 26, 100}
PixelAreas == {900, 10000}

\* the script variables outside the computation, as a finished settings block leaves them
ScriptIdle(sc) ==
  /\ script = sc
  /\ country_name = <<"Portugal">>
  /\ use_custom_aoi = FALSE
  /\ aoi_name = <<"AOI_Inland_bassin">>
  /\ admin_level = 2
  /\ admin1_names = <<>>
  /\ admin2_names = <<>>
  /\ imported = Undefined
  /\ AOI = imported
  /\ AOI_geometry = Undefined
  /\ aoi_label = Unset
  /\ output_prefix = InitialPrefix(script, country_name)
  /\ selectors = Unset
  /\ pc = 1
  /\ error = NoError
  /\ printed = <<>>
  /\ mapLayers = <<>>
  /\ exports = <<>>

ScriptUnchanged ==
  UNCHANGED <<settings, AOI, AOI_geometry, aoi_label, output_prefix, selectors,
              pc, error, printed, mapLayers, exports>>

Rational(n, d) == [num |-> n, den |-> d]

\* image.gt(k) at a pixel: 1 where the value exceeds k, else 0
Gt(v, k) == IF v > k THEN 1 ELSE 0

\* image.multiply(ee.Image.pixelArea()) at a pixel
MultiplyArea(v, px) == Rational(v * px.area, 1)

\* image.divide(k) at a pixel
Divide(q, k) == Rational(q.num, q.den * k)

\* reduceRegion({reducer: ee.Reducer.sum(), geometry: AOI_geometry}): the sum
\* over the pixels of the region; the band values share one denominator
ReduceSum(band, pixels, d) ==
  LET region == { i \in Pixels : pixels[i].inAOI }
  IN Rational(SumOver([i \in region |-> band[i].num], region), d)

HectareDivisor == 10000

\* treecover2000_aoi.gt(25).multiply(ee.Image.pixelArea()).reduceRegion(sum)
Forest2000Area(pixels) ==
  ReduceSum([i \in Pixels |-> MultiplyArea(Gt(pixels[i].treecover2000, 25), pixels[i])],
            pixels, 1)

\* loss_aoi.multiply(ee.Image.pixelArea()).divide(10000).reduceRegion(sum)
LossArea(pixels) ==
  ReduceSum([i \in Pixels |-> Divide(MultiplyArea(pixels[i].loss, pixels[i]), HectareDivisor)],
            pixels, HectareDivisor)

\* gain_aoi.multiply(ee.Image.pixelArea()).divide(10000).reduceRegion(sum)
GainArea(pixels) ==
  ReduceSum([i \in Pixels |-> Divide(MultiplyArea(pixels[i].gain, pixels[i]), HectareDivisor)],
            pixels, HectareDivisor)

PixelValues ==
  [treecover2000 : TreeCoverValues, loss : {0, 1}, gain : {0, 1},
   area : PixelAreas, inAOI : BOOLEAN]

NoValue == Rational(0, 1)

InitForest ==
  /\ ScriptIdle("GFC")
  /\ rain = RainIdle
  /\ stats = Idle
  /\ ndvi = Idle
  /\ \E px \in [Pixels -> PixelValues] :
       forest = [phase |-> "clipped", pixels |-> px,
                 forest_2000_area |-> NoValue, loss_area |-> NoValue,
                 gain_area |-> NoValue, reported |-> <<>>]

ForestUnchanged == ScriptUnchanged /\ UNCHANGED <<rain, stats, ndvi>>

\* var forest_2000_area = ...
ComputeForest2000Area ==
  /\ forest.phase = "clipped"
  /\ forest' = [forest EXCEPT !.phase = "forest",
                              !.forest_2000_area = Forest2000Area(forest.pixels)]
  /\ ForestUnchanged

\* var loss_area = ...
ComputeLossArea ==
  /\ forest.phase = "forest"
  /\ forest' = [forest EXCEPT !.phase = "loss", !.loss_area = LossArea(forest.pixels)]
  /\ ForestUnchanged

\* var gain_area = ...
ComputeGainArea ==
  /\ forest.phase = "loss"
  /\ forest' = [forest EXCEPT !.phase = "gain", !.gain_area = GainArea(forest.pixels)]
  /\ ForestUnchanged

\* the three area prints of FOREST CHANGE STATISTICS
PrintForestStats ==
  /\ forest.phase = "gain"
  /\ forest' = [forest EXCEPT
       !.phase = "printed",
       !.reported =
          << [label |-> "Forest area 2000 (>25% canopy, ha):", value |-> forest.forest_2000_area],
             [label |-> "Total forest loss (ha):", value |-> forest.loss_area],
             [label |-> "Total forest gain (ha, 2000-2012):", value |-> forest.gain_area] >>]
  /\ ForestUnchanged

NextForest ==
  \/ ComputeForest2000Area
  \/ ComputeLossArea
  \/ ComputeGainArea
  \/ PrintForestStats

SpecForest == InitForest /\ [][NextForest]_vars

\* square metres of the region's pixels that satisfy the test
AreaM2(test(_)) ==
  LET hit == { i \in Pixels : forest.pixels[i].inAOI /\ test(forest.pixels[i]) }
  IN SumOver([i \in hit |-> forest.pixels[i].area], hit)

IsForest2000(px) == px.treecover2000 > 25
IsLoss(px) == px.loss = 1
IsGain(px) == px.gain = 1

\* q = m2 / 10000
IsHectaresOf(q, m2) == q.num * 10000 = m2 * q.den

\* C12: the forest area in 2000 is reported in hectares: the value printed is
\* the summed area in square metres of the pixels with tree cover above 25,
\* divided by 10000, as for the total loss and total gain.
C12_ForestAreaInHectares ==
  forest.phase = "printed" =>
    /\ IsHectaresOf(forest.reported[1].value, AreaM2(IsForest2000))
    /\ IsHectaresOf(forest.reported[2].value, AreaM2(IsLoss))
    /\ IsHectaresOf(forest.reported[3].value, AreaM2(IsGain))

-----------------------------------------------------------------------------
(* GSW1_4 transition area table: createFeature over the reducer groups     *)
(*                                                                         *)
(* A server-side value is a record with an ok flag: a failed computation   *)
(* has ok = FALSE and fails whatever consumes it.  ee.Algorithms.If        *)
(* yields the case its condition selects.                                  *)

class_names ==
  << "No Change", "Permanent Water", "New Permanent", "Lost Permanent",
     "Seasonal Water", "New Seasonal", "Lost Seasonal",
     "Seasonal to Permanent", "Permanent to Seasonal",
     "Ephemeral Permanent", "Ephemeral Seasonal" >>

class_colors ==
  << "#ffffff", "#0000ff", "#22b14c", "#d1102d", "#99d9ea",
     "#b5e61d", "#e6a1aa", "#ff7f27", "#ffc90e", "#7f7f7f", "#c3c3c3" >>

MaxClassValue == 12
NumGroups == 2

\* class values a group can carry, in halves
ClassValues == { Rational(h, 2) : h \in -3..(2 * MaxClassValue + 1) }
SumValues == {0, 1, 1000000, 2500000}

\* one element of reduction_results.get('groups')
Groups ==
  { [transition_class_value |-> v, has_sum |-> TRUE, sum |-> a] :
      v \in ClassValues, a \in SumValues }
  \cup { [transition_class_value |-> v, has_sum |-> FALSE, sum |-> 0] :
      v \in ClassValues }

Ok(v) == [ok |-> TRUE, val |-> v]
Failed == [ok |-> FALSE, val |-> ""]

\* ee.Number.toInt(): the fraction is dropped
ToInt(q) ==
  IF q.num >= 0 THEN q.num \div q.den ELSE 0 - ((0 - q.num) \div q.den)

\* ee.List.get(index): a negative index counts from the end, an index outside
\* the list fails
ListGet(list, index) ==
  IF 0 <= index /\ index < Len(list) THEN Ok(list[index + 1])
  ELSE IF index < 0 /\ 0 - index <= Len(list) THEN Ok(list[Len(list) + index + 1])
  ELSE Failed

\* ee.Algorithms.If(condition, trueCase, falseCase)
If(condition, trueCase, falseCase) ==
  IF condition THEN trueCase ELSE falseCase

\* transition_class_stats.get('sum', 0)
GetSum(dict) == IF dict.has_sum THEN dict.sum ELSE 0

ClassIsValid(class_number) == class_number >= 0 /\ class_number <= 10

createFeature_NoGuard(transition_class_stats) ==
  LET class_number == ToInt(transition_class_stats.transition_class_value)
      class_name == ListGet(class_names, class_number)
      class_color == ListGet(class_colors, class_number)
      area_km2 == Divide(Rational(GetSum(transition_class_stats), 1), 1000000)
  IN [ok |-> class_name.ok /\ class_color.ok,
      transition_class_number |-> class_number,
      transition_class_name |-> class_name.val,
      transition_class_palette |-> class_color.val,
      area_km2 |-> area_km2]

createFeature(transition_class_stats) ==
  LET class_number == ToInt(transition_class_stats.transition_class_value)
      valid == ClassIsValid(class_number)
      class_name == If(valid, ListGet(class_names, class_number), Ok("Unknown"))
      class_color == If(valid, ListGet(class_colors, class_number), Ok("#999999"))
      area_km2 == Divide(Rational(GetSum(transition_class_stats), 1), 1000000)
  IN [ok |-> class_name.ok /\ class_color.ok,
      transition_class_number |-> class_number,
      transition_class_name |-> class_name.val,
      transition_class_palette |-> class_color.val,
      area_km2 |-> area_km2]

InitFeature ==
  /\ ScriptIdle("GSW1_4")
  /\ rain = RainIdle
  /\ forest = Idle
  /\ ndvi = Idle
  /\ stats = [phase |-> "reduced", mapped |-> 0]

FeatureUnchanged == ScriptUnchanged /\ UNCHANGED <<rain, forest, ndvi>>

\* groups.map(...) reaches the next element of the list
NextGroup ==
  /\ stats.phase \in {"reduced", "feature"}
  /\ stats.mapped < NumGroups
  /\ \E g \in Groups :
       stats' = [phase |-> "group", mapped |-> stats.mapped, group |-> g]
  /\ FeatureUnchanged

\* ... and createFeature is applied to it
MapCreateFeature ==
  /\ stats.phase = "group"
  /\ stats' = [phase |-> "feature", mapped |-> stats.mapped + 1,
               group |-> stats.group, feature |-> createFeature(stats.group)]
  /\ FeatureUnchanged

NextFeature ==
  \/ NextGroup
  \/ MapCreateFeature

SpecFeature == InitFeature /\ [][NextFeature]_vars

\* n is q with its fraction dropped
IsIntegerOf(n, q) ==
  IF q.num >= 0
    THEN n * q.den <= q.num /\ q.num < (n + 1) * q.den
    ELSE (n - 1) * q.den < q.num /\ q.num <= n * q.den

\* C13: createFeature maps a group to a feature whose transition_class_number
\* is the class value as an integer, whose name and colour are the entries of
\* class_names and class_colors at that index for 0..10 and 'Unknown' and
\* '#999999' otherwise, whose area_km2 is the sum divided by 1e6 (0 without a
\* sum); it fails on no class value.
C13_CreateFeature ==
  stats.phase = "feature" =>
    LET g == stats.group
        f == stats.feature
        n == f.transition_class_number
    IN /\ f.ok
       /\ IsIntegerOf(n, g.transition_class_value)
       /\ n \in 0..10 =>
            /\ f.transition_class_name = class_names[n + 1]
            /\ f.transition_class_palette = class_colors[n + 1]
       /\ n \notin 0..10 =>
            /\ f.transition_class_name = "Unknown"
            /\ f.transition_class_palette = "#999999"
       /\ g.has_sum => f.area_km2 = Rational(g.sum, 1000000)
       /\ ~g.has_sum => f.area_km2.num = 0

C13_Witness ==
  /\ stats.phase = "feature"
  /\ stats.feature.transition_class_number = 11
  /\ stats.feature.transition_class_name = "Unknown"
  /\ stats.feature.area_km2 = Rational(2500000, 1000000)

-----------------------------------------------------------------------------
(* NDVI mean anomaly at one pixel                                          *)
(*                                                                         *)
(* The loaded Landsat collection holds one scene on each of the first      *)
(* NumScenes days.  The NDVI of a scene at the pixel is a number of tenths *)
(* or is masked (cloud, saturation).  The land cover image is clipped to   *)
(* the AOI, so the vegetation mask is off outside it.                      *)

NumScenes == 3
NdviTenths == {-1, 5}

Scenes == { day \in Days : TimeOf(day) <= NumScenes }
SceneTimes == 1..(NumScenes + 1)

Tenths(n) == [valid |-> TRUE, num |-> n, den |-> 10]
SceneValues == {Masked} \cup { Tenths(n) : n \in NdviTenths }

\* lc.eq(lc_classes[0]).or(...) at the pixel, lc being clipped to the AOI
VegMask(n) == IF n.inAOI /\ n.veg THEN 1 ELSE 0

\* the NDVI band addNDVI gives a scene, at the pixel
NdviPixel(n, day) == UpdateMask(n.scene[day], VegMask(n))

\* ImageCollection.mean() at the pixel, over images in tenths
MeanNdvi(n, coll) ==
  LET live == { day \in coll : NdviPixel(n, day).valid }
  IN IF live = {} THEN Masked
     ELSE [valid |-> TRUE,
           num |-> SumOver([day \in live |-> NdviPixel(n, day).num], live),
           den |-> 10 * Cardinality(live)]

\* withNDVI.filterDate(b_start, b_end)
withNDVI_baseline(n) == FilterDate(Scenes, n.b_start, n.b_end)

BaselineNdvi_AllDays(n) == MeanNdvi(n, withNDVI_baseline(n))

\* withNDVI_baseline.select("NDVI").filter(ee.Filter.dayOfYear(bm_start, bm_end)).mean()
BaselineNdvi(n) ==
  MeanNdvi(n, FilterDayOfYear(withNDVI_baseline(n), n.bm_start, n.bm_end))

\* withNDVI.filterDate(anom_start, anom_end).select("NDVI").mean().clip(AOI_geometry)
StudyMeanNdvi(n) == Clip(n, MeanNdvi(n, FilterDate(Scenes, n.anom_start, n.anom_end)))

\* study_meanNDVI.select("NDVI").subtract(baseline).clip(AOI_geometry)
AnomalyAOI(n, study, base) == Clip(n, Subtract(study, base))

NdviSettings(a, v, sc, bs, be, ms, me, as, ae) ==
  [phase |-> "settings", inAOI |-> a, veg |-> v, scene |-> sc,
   b_start |-> bs, b_end |-> be, bm_start |-> ms, bm_end |-> me,
   anom_start |-> as, anom_end |-> ae,
   baseline |-> Masked, study_meanNDVI |-> Masked, anomaly_AOI |-> Masked,
   exported |-> <<>>]

InitNdvi ==
  /\ ScriptIdle("NDVI")
  /\ rain = RainIdle
  /\ forest = Idle
  /\ stats = Idle
  /\ \E a \in BOOLEAN :
       \E v \in (IF a THEN BOOLEAN ELSE {FALSE}) :
         \E sc \in (IF v THEN [Scenes -> SceneValues]
                         ELSE {[day \in Scenes |-> Tenths(5)]}) :
           \E bs \in SceneTimes, ms \in Doys, as \in SceneTimes :
             \E be \in { t \in SceneTimes : bs <= t },
                me \in { x \in Doys : ms <= x },
                ae \in { t \in SceneTimes : as <= t } :
               ndvi = NdviSettings(a, v, sc, bs, be, ms, me, as, ae)

NdviUnchanged == ScriptUnchanged /\ UNCHANGED <<rain, forest, stats>>

\* var baseline = ...
ComputeBaselineNdvi ==
  /\ ndvi.phase = "settings"
  /\ ndvi' = [ndvi EXCEPT !.phase = "baseline", !.baseline = BaselineNdvi(ndvi)]
  /\ NdviUnchanged

\* var study_meanNDVI = ...
ComputeStudyMeanNdvi ==
  /\ ndvi.phase = "baseline"
  /\ ndvi' = [ndvi EXCEPT !.phase = "study", !.study_meanNDVI = StudyMeanNdvi(ndvi)]
  /\ NdviUnchanged

\* var anomaly_AOI = ...
ComputeAnomalyAOI ==
  /\ ndvi.phase = "study"
  /\ ndvi' = [ndvi EXCEPT
       !.phase = "anomaly",
       !.anomaly_AOI = AnomalyAOI(ndvi, ndvi.study_meanNDVI, ndvi.baseline)]
  /\ NdviUnchanged

ExportImage(suffix, image) == [suffix |-> suffix, image |-> image]

\* Export.image.toDrive({image: anomaly_AOI, ...})
ExportMeanAnomaly ==
  /\ ndvi.phase = "anomaly"
  /\ ndvi' = [ndvi EXCEPT
       !.phase = "exported anomaly",
       !.exported = Append(@, ExportImage("_Mean_Anomaly_", ndvi.anomaly_AOI))]
  /\ NdviUnchanged

\* Export.image.toDrive({image: baseline, ...})
ExportBaselineNdvi ==
  /\ ndvi.phase = "exported anomaly"
  /\ ndvi' = [ndvi EXCEPT
       !.phase = "exported baseline",
       !.exported = Append(@, ExportImage("_Baseline_NDVI_", ndvi.baseline))]
  /\ NdviUnchanged

\* Export.image.toDrive({image: study_meanNDVI, ...})
ExportStudyNdvi ==
  /\ ndvi.phase = "exported baseline"
  /\ ndvi' = [ndvi EXCEPT
       !.phase = "exported study",
       !.exported = Append(@, ExportImage("_Study_NDVI_", ndvi.study_meanNDVI))]
  /\ NdviUnchanged

NextNdvi ==
  \/ ComputeBaselineNdvi
  \/ ComputeStudyMeanNdvi
  \/ ComputeAnomalyAOI
  \/ ExportMeanAnomaly
  \/ ExportBaselineNdvi
  \/ ExportStudyNdvi

SpecNdvi == InitNdvi /\ [][NextNdvi]_vars

\* the scenes of the study period with an NDVI value at the pixel
StudyScenes ==
  { day \in Scenes : /\ ndvi.anom_start <= TimeOf(day)
                     /\ TimeOf(day) < ndvi.anom_end
                     /\ NdviPixel(ndvi, day).valid }

\* the scenes of the baseline period and season with an NDVI value at the pixel
BaselineScenes ==
  { day \in Scenes : /\ ndvi.b_start <= TimeOf(day)
                     /\ TimeOf(day) < ndvi.b_end
                     /\ ndvi.bm_start <= day[2]
                     /\ day[2] <= ndvi.bm_end
                     /\ NdviPixel(ndvi, day).valid }

NdviSum(S) == SumOver([day \in S |-> NdviPixel(ndvi, day).num], S)

\* px is the mean NDVI of the scenes S, masked when there is none
IsMeanOf(px, S) ==
  /\ px.valid <=> S # {}
  /\ px.valid => px.num * 10 * Cardinality(S) = NdviSum(S) * px.den

\* C14: the exported mean-anomaly raster is, per pixel, the mean NDVI of the
\* scenes in [anom_start, anom_end) minus the mean NDVI of the scenes in
\* [b_start, b_end) with day of year in [bm_start, bm_end], clipped to the
\* AOI; the baseline and study rasters exported with it are the two operands.
C14_MeanAnomaly ==
  ndvi.phase = "exported study" =>
    LET anomaly == ndvi.exported[1].image
        base == ndvi.exported[2].image
        study == ndvi.exported[3].image
        nS == Cardinality(StudyScenes)
        nB == Cardinality(BaselineScenes)
    IN /\ ndvi.exported[1].suffix = "_Mean_Anomaly_"
       /\ ndvi.exported[2].suffix = "_Baseline_NDVI_"
       /\ ndvi.exported[3].suffix = "_Study_NDVI_"
       /\ IsMeanOf(base, BaselineScenes)
       /\ IsMeanOf(study, IF ndvi.inAOI THEN StudyScenes ELSE {})
       /\ anomaly.valid <=> (ndvi.inAOI /\ nS > 0 /\ nB > 0)
       /\ anomaly.valid =>
            /\ anomaly.num * 10 * nS * nB
                 = (NdviSum(StudyScenes) * nB - NdviSum(BaselineScenes) * nS) * anomaly.den
            /\ anomaly.num * study.den * base.den
                 = (study.num * base.den - base.num * study.den) * anomaly.den

C14_Witness ==
  /\ ndvi.phase = "exported study"
  /\ ndvi.exported[1].image.valid
  /\ ndvi.exported[1].image.num # 0
  /\ Cardinality(StudyScenes) > 1
  /\ \E day \in Scenes :
       /\ day \in withNDVI_baseline(ndvi)
       /\ NdviPixel(ndvi, day).valid
       /\ day \notin BaselineScenes

====
